---- MODULE Spec2Model ----
(***************************************************************************)
(* Power-state management of the SRAM-class PM slaves of the ZynqMP PMU    *)
(* firmware (L2, OCM banks, TCM banks): pm_sram.c.                         *)
(*                                                                         *)
(* The state is the currState field of every slave node, the two hardware  *)
(* registers the file writes (the RAM retention control register and the   *)
(* APU reset register), the requirement links of the masters, and a record *)
(* of the most recent call of the FSM handler (arguments, state on entry,  *)
(* returned status and the ordered hardware accesses it made).             *)
(***************************************************************************)
EXTENDS Naturals, Integers, Sequences, FiniteSets, TLC

(***************************************************************************)
(* Bounds of the model.                                                    *)
(***************************************************************************)
\* PmStateId values a caller may pass (and a node may hold when corrupted)
MaxStateId == 3
\* number of distinct slaves that receive requests in one behaviour
MaxActiveBanks == 1

(***************************************************************************)
(* Power states of SRAM, pm_sram.c:42-45.                                  *)
(***************************************************************************)
PM_SRAM_STATE_OFF == 0
PM_SRAM_STATE_RET == 1
PM_SRAM_STATE_ON == 2
PM_SRAM_STATE_MAX == 3

StateIds == 0 .. MaxStateId
ValidStates == {PM_SRAM_STATE_OFF, PM_SRAM_STATE_RET, PM_SRAM_STATE_ON}

(***************************************************************************)
(* Status codes.  Only their identity matters, so they are kept symbolic.  *)
(***************************************************************************)
XST_SUCCESS == "XST_SUCCESS"
XST_FAILURE == "XST_FAILURE"
XST_NO_FEATURE == "XST_NO_FEATURE"
XST_PM_INTERNAL == "XST_PM_INTERNAL"

\* what a PMU-ROM power handler can return
HwStatus == {XST_SUCCESS, XST_FAILURE}

(***************************************************************************)
(* Capability tables, pm_sram.c:53-64.  A capability word is the set of    *)
(* its PM_CAP_* bits.                                                      *)
(***************************************************************************)
pmSramStates ==
    [s \in ValidStates |->
        CASE s = PM_SRAM_STATE_OFF -> {}
          [] s = PM_SRAM_STATE_RET -> {"PM_CAP_CONTEXT", "PM_CAP_POWER"}
          [] s = PM_SRAM_STATE_ON  -> {"PM_CAP_ACCESS", "PM_CAP_CONTEXT", "PM_CAP_POWER"}]

\* (pmTcmStatesWake: a variant whose retention state carries a capability
\* that the ON state lacks)
pmTcmStatesWake ==
    [s \in ValidStates |->
        CASE s = PM_SRAM_STATE_OFF -> {}
          [] s = PM_SRAM_STATE_RET -> {"PM_CAP_CONTEXT", "PM_CAP_WAKEUP"}
          [] s = PM_SRAM_STATE_ON  -> {"PM_CAP_ACCESS", "PM_CAP_CONTEXT", "PM_CAP_POWER"}]

pmTcmStates ==
    [s \in ValidStates |->
        CASE s = PM_SRAM_STATE_OFF -> {}
          [] s = PM_SRAM_STATE_RET -> {"PM_CAP_CONTEXT"}
          [] s = PM_SRAM_STATE_ON  -> {"PM_CAP_ACCESS", "PM_CAP_CONTEXT", "PM_CAP_POWER"}]

(***************************************************************************)
(* Transition table, pm_sram.c:67-85.                                      *)
(***************************************************************************)
\* (pmSramTransitionsNoWake: a variant without the OFF -> ON entry)
pmSramTransitionsNoWake ==
    << [fromState |-> PM_SRAM_STATE_ON,  toState |-> PM_SRAM_STATE_RET, latency |-> "PM_DEFAULT_LATENCY"],
       [fromState |-> PM_SRAM_STATE_RET, toState |-> PM_SRAM_STATE_ON,  latency |-> "PM_DEFAULT_LATENCY"],
       [fromState |-> PM_SRAM_STATE_ON,  toState |-> PM_SRAM_STATE_OFF, latency |-> "PM_DEFAULT_LATENCY"] >>

pmSramTransitions ==
    << [fromState |-> PM_SRAM_STATE_ON,  toState |-> PM_SRAM_STATE_RET, latency |-> "PM_DEFAULT_LATENCY"],
       [fromState |-> PM_SRAM_STATE_RET, toState |-> PM_SRAM_STATE_ON,  latency |-> "PM_DEFAULT_LATENCY"],
       [fromState |-> PM_SRAM_STATE_ON,  toState |-> PM_SRAM_STATE_OFF, latency |-> "PM_DEFAULT_LATENCY"],
       [fromState |-> PM_SRAM_STATE_OFF, toState |-> PM_SRAM_STATE_ON,  latency |-> "PM_DEFAULT_LATENCY"] >>

(***************************************************************************)
(* The two FSMs, pm_sram.c:150-168.                                        *)
(***************************************************************************)
slaveSramFsm ==
    [states |-> pmSramStates, statesCnt |-> PM_SRAM_STATE_MAX,
     trans |-> pmSramTransitions, transCnt |-> Len(pmSramTransitions)]

slaveTcmFsm ==
    [states |-> pmTcmStates, statesCnt |-> PM_SRAM_STATE_MAX,
     trans |-> pmSramTransitions, transCnt |-> Len(pmSramTransitions)]

(***************************************************************************)
(* The slave instances, pm_sram.c:203-466.                                 *)
(***************************************************************************)
OcmBanks == {"OCM0", "OCM1", "OCM2", "OCM3"}
TcmBanks == {"TCM0A", "TCM0B", "TCM1A", "TCM1B"}
Banks == {"L2"} \cup OcmBanks \cup TcmBanks

\* .slvFsm of each instance
slvFsm(b) == IF b \in TcmBanks THEN slaveTcmFsm ELSE slaveSramFsm

\* .flags of each instance: PM_SLAVE_FLAG_IS_SHAREABLE or 0
IsShareable(b) == b # "L2"

\* .reqs of each instance, as the masters owning the links, in array order
\* (pmReqsOneLink: a variant that lists the APU link only)
pmReqsOneLink(b) == <<"APU">>

pmReqs(b) ==
    IF b = "L2" THEN <<"APU">>
    ELSE IF b \in OcmBanks THEN <<"APU", "RPU0">>
    ELSE <<"RPU0", "APU">>

Masters == {"APU", "RPU0"}

\* the slaves a master has a requirement record for: the indices
\* PM_MASTER_APU_SLAVE_* and PM_MASTER_RPU_0_SLAVE_* the file uses
MasterSlaves(m) == IF m = "APU" THEN Banks ELSE Banks \ {"L2"}

\* .PwrDn and .PwrUp of each instance
PwrDnFn(b) == IF b = "L2" THEN "PmL2PwrDn" ELSE "XpbrPwrDn" \o b
PwrUpFn(b) == "XpbrPwrUp" \o b

\* .retCtrlAddr and .retCtrlMask of each instance.  A register is the set
\* of its bits that are 1; the bits of the retention control register are
\* named after the bank they belong to, "RSVD" stands for all other bits.
PMU_GLOBAL_RAM_RET_CNTRL == "PMU_GLOBAL_RAM_RET_CNTRL"
CRF_APB_RST_FPD_APU == "CRF_APB_RST_FPD_APU"
CRF_APB_RST_FPD_APU_APU_L2_RESET_MASK == {"APU_L2_RESET"}

retCtrlAddr(b) == PMU_GLOBAL_RAM_RET_CNTRL
retCtrlMask(b) == {b}

Addrs == {PMU_GLOBAL_RAM_RET_CNTRL, CRF_APB_RST_FPD_APU}
RegBits(a) == IF a = PMU_GLOBAL_RAM_RET_CNTRL THEN Banks \cup {"RSVD"}
              ELSE {"APU_L2_RESET", "RSVD"}
\* every bit of a 32-bit word
AllBits == Banks \cup {"APU_L2_RESET", "RSVD"}

\* .currState of each instance
InitCurrState == [b \in Banks |-> PM_SRAM_STATE_ON]

(***************************************************************************)
(* Hardware access log of one handler call.                                *)
(***************************************************************************)
NoMask == {}
Event(op, fn, addr, mask, val) ==
    [op |-> op, fn |-> fn, addr |-> addr, mask |-> mask, val |-> val]

Log(h, e) == [h EXCEPT !.trace = Append(@, e)]

\* bitwise complement of a word
Not32(w) == AllBits \ w

\* XPfw_RMW32(addr, mask, value): reg = (reg & ~mask) | (value & mask)
XPfw_RMW32(h, addr, mask, value) ==
    LET new == ((h.regs[addr] \ mask) \cup (value \cap mask)) \cap RegBits(addr)
    IN  Log([h EXCEPT !.regs[addr] = new],
            Event("RMW", "XPfw_RMW32", addr, mask, value \cap mask))

(***************************************************************************)
(* PmL2PwrDn, pm_sram.c:185-201.  rom is the status the PMU-ROM handler    *)
(* returns.                                                                *)
(***************************************************************************)
\* (PmL2PwrDnGuarded: a variant that asserts the reset only when the PMU-ROM
\* handler succeeded)
PmL2PwrDnGuarded(h, rom) ==
    LET h1 == Log(h, Event("ROM", "XpbrPwrDnL2Bank0Handler", "-", NoMask, NoMask))
        h2 == IF rom = XST_SUCCESS
              THEN XPfw_RMW32(h1, CRF_APB_RST_FPD_APU,
                              CRF_APB_RST_FPD_APU_APU_L2_RESET_MASK,
                              CRF_APB_RST_FPD_APU_APU_L2_RESET_MASK)
              ELSE h1
    IN  [h2 EXCEPT !.status = rom]

PmL2PwrDn(h, rom) ==
    LET h1 == Log(h, Event("ROM", "XpbrPwrDnL2Bank0Handler", "-", NoMask, NoMask))
        h2 == XPfw_RMW32(h1, CRF_APB_RST_FPD_APU,
                         CRF_APB_RST_FPD_APU_APU_L2_RESET_MASK,
                         CRF_APB_RST_FPD_APU_APU_L2_RESET_MASK)
    IN  [h2 EXCEPT !.status = rom]

\* status = sram->PwrDn()
PwrDn(b, h, rom) ==
    LET h1 == Log(h, Event("PwrDn", PwrDnFn(b), "-", NoMask, NoMask))
    IN  IF PwrDnFn(b) = "PmL2PwrDn" THEN PmL2PwrDn(h1, rom)
        ELSE [h1 EXCEPT !.status = rom]

\* status = sram->PwrUp()
PwrUp(b, h, rom) ==
    [Log(h, Event("PwrUp", PwrUpFn(b), "-", NoMask, NoMask)) EXCEPT !.status = rom]

(***************************************************************************)
(* PmSramFsmHandler, pm_sram.c:94-147.  h is the machine on entry (the     *)
(* registers, status = XST_PM_INTERNAL as initialised at line 96, an empty *)
(* access log); rom is what the PMU-ROM power handler returns if called.   *)
(* Each case of the switch yields the machine at the break.                *)
(***************************************************************************)
\* variants of the cases with a defect, used to show what each property detects
\* ON: a request for the state the bank is in is answered with success
CaseOnIdem(b, nextState, h, rom) ==
    IF PM_SRAM_STATE_RET = nextState THEN
        PwrDn(b, XPfw_RMW32(h, retCtrlAddr(b), retCtrlMask(b), retCtrlMask(b)), rom)
    ELSE IF PM_SRAM_STATE_OFF = nextState THEN
        PwrDn(b, XPfw_RMW32(h, retCtrlAddr(b), retCtrlMask(b), Not32(retCtrlMask(b))), rom)
    ELSE IF PM_SRAM_STATE_ON = nextState THEN [h EXCEPT !.status = XST_SUCCESS]
    ELSE [h EXCEPT !.status = XST_NO_FEATURE]

\* ON: the retention control is written after the power down
CaseOnLate(b, nextState, h, rom) ==
    IF PM_SRAM_STATE_RET = nextState THEN
        LET h1 == PwrDn(b, h, rom)
        IN  [XPfw_RMW32(h1, retCtrlAddr(b), retCtrlMask(b), retCtrlMask(b))
                EXCEPT !.status = h1.status]
    ELSE IF PM_SRAM_STATE_OFF = nextState THEN
        LET h1 == PwrDn(b, h, rom)
        IN  [XPfw_RMW32(h1, retCtrlAddr(b), retCtrlMask(b), Not32(retCtrlMask(b)))
                EXCEPT !.status = h1.status]
    ELSE [h EXCEPT !.status = XST_NO_FEATURE]

\* ON: ON -> RET clears the retention bits instead of setting them
CaseOnClear(b, nextState, h, rom) ==
    IF PM_SRAM_STATE_RET = nextState \/ PM_SRAM_STATE_OFF = nextState THEN
        PwrDn(b, XPfw_RMW32(h, retCtrlAddr(b), retCtrlMask(b), Not32(retCtrlMask(b))), rom)
    ELSE [h EXCEPT !.status = XST_NO_FEATURE]

\* RET: RET -> ON powers the bank down
CaseRetDown(b, nextState, h, rom) ==
    IF PM_SRAM_STATE_ON = nextState \/ PM_SRAM_STATE_OFF = nextState THEN
        PwrDn(b, XPfw_RMW32(h, retCtrlAddr(b), retCtrlMask(b), Not32(retCtrlMask(b))), rom)
    ELSE [h EXCEPT !.status = XST_NO_FEATURE]

\* OFF: the power up is called before the target state is looked at
CaseOffEager(b, nextState, h, rom) ==
    LET h1 == PwrUp(b, h, rom)
    IN  IF PM_SRAM_STATE_ON = nextState THEN h1
        ELSE [h1 EXCEPT !.status = XST_NO_FEATURE]

\* default: an unknown state is handled like OFF
CaseDefaultAsOff(b, nextState, h, rom) ==
    IF PM_SRAM_STATE_ON = nextState THEN
        PwrUp(b, h, rom)
    ELSE [h EXCEPT !.status = XST_NO_FEATURE]

\* OFF: the branch for OFF -> ON is missing
CaseOffNone(b, nextState, h, rom) ==
    [h EXCEPT !.status = XST_NO_FEATURE]

\* ON: every target other than RET is handled as OFF
CaseOnElseOff(b, nextState, h, rom) ==
    IF PM_SRAM_STATE_RET = nextState THEN
        PwrDn(b, XPfw_RMW32(h, retCtrlAddr(b), retCtrlMask(b), retCtrlMask(b)), rom)
    ELSE
        PwrDn(b, XPfw_RMW32(h, retCtrlAddr(b), retCtrlMask(b), Not32(retCtrlMask(b))), rom)

\* ON: the retention control is written with every bit selected
CaseOnWide(b, nextState, h, rom) ==
    IF PM_SRAM_STATE_RET = nextState THEN
        PwrDn(b, XPfw_RMW32(h, retCtrlAddr(b), AllBits, retCtrlMask(b)), rom)
    ELSE IF PM_SRAM_STATE_OFF = nextState THEN
        PwrDn(b, XPfw_RMW32(h, retCtrlAddr(b), AllBits, Not32(retCtrlMask(b))), rom)
    ELSE [h EXCEPT !.status = XST_NO_FEATURE]

\* the state is committed whatever the status
CommitAlways(status, cur, nextState) == nextState

\* case PM_SRAM_STATE_ON, lines 100-114
CaseOn(b, nextState, h, rom) ==
    IF PM_SRAM_STATE_RET = nextState THEN
        PwrDn(b, XPfw_RMW32(h, retCtrlAddr(b), retCtrlMask(b), retCtrlMask(b)), rom)
    ELSE IF PM_SRAM_STATE_OFF = nextState THEN
        PwrDn(b, XPfw_RMW32(h, retCtrlAddr(b), retCtrlMask(b), Not32(retCtrlMask(b))), rom)
    ELSE [h EXCEPT !.status = XST_NO_FEATURE]

\* case PM_SRAM_STATE_RET, lines 115-127
CaseRet(b, nextState, h, rom) ==
    IF PM_SRAM_STATE_ON = nextState THEN
        PwrUp(b, h, rom)
    ELSE IF PM_SRAM_STATE_OFF = nextState THEN
        PwrDn(b, XPfw_RMW32(h, retCtrlAddr(b), retCtrlMask(b), Not32(retCtrlMask(b))), rom)
    ELSE [h EXCEPT !.status = XST_NO_FEATURE]

\* case PM_SRAM_STATE_OFF, lines 128-135
CaseOff(b, nextState, h, rom) ==
    IF PM_SRAM_STATE_ON = nextState THEN
        PwrUp(b, h, rom)
    ELSE [h EXCEPT !.status = XST_NO_FEATURE]

\* default, lines 136-139
CaseDefault(b, nextState, h, rom) ==
    [h EXCEPT !.status = XST_PM_INTERNAL]

\* switch (slave->node.currState), lines 99-140
Switch(b, cur, nextState, h, rom) ==
    CASE cur = PM_SRAM_STATE_ON  -> CaseOn(b, nextState, h, rom)
      [] cur = PM_SRAM_STATE_RET -> CaseRet(b, nextState, h, rom)
      [] cur = PM_SRAM_STATE_OFF -> CaseOff(b, nextState, h, rom)
      [] OTHER                   -> CaseDefault(b, nextState, h, rom)

\* PmNodeUpdateCurrState(&slave->node, nextState): the node's new currState
PmNodeUpdateCurrState(cur, newState) == newState

\* lines 142-144: the state the node holds when the handler returns
Commit(status, cur, nextState) ==
    IF XST_SUCCESS = status THEN PmNodeUpdateCurrState(cur, nextState) ELSE cur

(***************************************************************************)
(* State.                                                                  *)
(***************************************************************************)
VARIABLES
    currState,   \* slave->node.currState of every bank
    regs,        \* the bits that are 1 in each hardware register
    reqs,        \* demanded state of every requirement link, or NoReq
    required,    \* the state the aggregator last computed for each bank
    active,      \* the banks that have received a request
    call         \* the most recent handler call

vars == <<currState, regs, reqs, required, active, call>>

\* a requirement link: whether the master demands anything, and which state
NoReq == [active |-> FALSE, state |-> PM_SRAM_STATE_OFF]
Req(s) == [active |-> TRUE, state |-> s]
Demands == {NoReq} \cup {Req(s) : s \in ValidStates}
NoLinks == [m \in Masters |-> NoReq]

\* call.rom: what the PMU-ROM power handler returns when the call reaches it;
\* call.before: the bank's links before the requirement change that led to
\* the call (the links themselves for a direct request)
NoCall == [issued |-> FALSE, slave |-> "-", nextState |-> PM_SRAM_STATE_OFF,
           prevState |-> PM_SRAM_STATE_OFF, rom |-> "-", status |-> "-",
           trace |-> <<>>, before |-> NoLinks]

InitRegs(v) == [a \in Addrs |-> IF a = PMU_GLOBAL_RAM_RET_CNTRL THEN v ELSE {}]

\* the retention control register comes out of reset all clear or, to cover
\* an unknown reset value, all set
InitCommon ==
    /\ \E v \in {{}, RegBits(PMU_GLOBAL_RAM_RET_CNTRL)} : regs = InitRegs(v)
    /\ reqs = [b \in Banks |-> NoLinks]
    /\ required = [b \in Banks |-> NoReq]
    /\ active = {}
    /\ call = NoCall

Init ==
    /\ currState = InitCurrState
    /\ InitCommon

\* a bank may take part while the bound on active banks allows it
MayUse(b) == b \in active \/ Cardinality(active) < MaxActiveBanks

\* the effect of enterState(slave, nextState) on the state
EnterState(b, nextState, rom) ==
    LET cur == currState[b]
        h0  == [regs |-> regs, status |-> XST_PM_INTERNAL, trace |-> <<>>]
        h   == Switch(b, cur, nextState, h0, rom)
    IN  /\ currState' = [currState EXCEPT ![b] = Commit(h.status, cur, nextState)]
        /\ regs' = h.regs
        /\ call' = [issued |-> TRUE, slave |-> b, nextState |-> nextState,
                    prevState |-> cur, rom |-> rom, status |-> h.status,
                    trace |-> h.trace, before |-> reqs[b]]

\* a caller asks the handler to move bank b to nextState
RequestTransition(b, nextState, rom) ==
    /\ MayUse(b)
    /\ active' = active \cup {b}
    /\ EnterState(b, nextState, rom)
    /\ UNCHANGED <<reqs, required>>

Next == \E b \in Banks, nextState \in StateIds, rom \in HwStatus :
            RequestTransition(b, nextState, rom)

Spec == Init /\ [][Next]_vars

\* the same requests on a system in which the currState field of one node
\* may hold a value outside the FSM's states (or is intact)
\* (the node with the unknown state counts among the active banks)
InitFault ==
    /\ \E v \in {{}, RegBits(PMU_GLOBAL_RAM_RET_CNTRL)} : regs = InitRegs(v)
    /\ reqs = [b \in Banks |-> NoLinks]
    /\ required = [b \in Banks |-> NoReq]
    /\ call = NoCall
    /\ \/ currState = InitCurrState /\ active = {}
       \/ \E b \in Banks, v \in StateIds \ ValidStates :
             /\ currState = [InitCurrState EXCEPT ![b] = v]
             /\ active = {b}

SpecFault == InitFault /\ [][Next]_vars

(***************************************************************************)
(* Requirement aggregation and dispatch (section 4.3 of the design).       *)
(***************************************************************************)
\* the more capable of two states of bank b, by capability superset
MoreCapable(b, x, y) ==
    IF slvFsm(b).states[x] \subseteq slvFsm(b).states[y] THEN y ELSE x

\* scan links i.. of bank b; acc is the required state so far
RECURSIVE ScanReqs(_, _, _, _)
ScanReqs(b, links, i, acc) ==
    IF i > Len(pmReqs(b)) THEN acc
    ELSE LET d == links[pmReqs(b)[i]]
         IN  ScanReqs(b, links, i + 1,
                      IF ~d.active THEN acc
                      ELSE IF ~acc.active THEN d
                      ELSE Req(MoreCapable(b, acc.state, d.state)))

\* the required state of bank b: the most capable active demand
RequiredState(b, links) == ScanReqs(b, links, 1, NoReq)

\* master m changes its demand on bank b to d; the aggregator recomputes the
\* required state and dispatches when it differs from the current state
SetRequirement(b, m, d, rom) ==
    /\ b \in active
    /\ b \in MasterSlaves(m)
    /\ d # reqs[b][m]
    /\ UNCHANGED active
    /\ reqs' = [reqs EXCEPT ![b][m] = d]
    /\ LET r == RequiredState(b, reqs'[b])
       IN  /\ required' = [required EXCEPT ![b] = r]
           /\ IF r.active /\ r.state # currState[b]
              THEN EnterState(b, r.state, rom)
              ELSE /\ UNCHANGED <<currState, regs>>
                   /\ call' = [NoCall EXCEPT !.slave = b, !.prevState = currState[b],
                                             !.before = reqs[b]]

NextAgg == \E b \in Banks, m \in Masters, d \in Demands, rom \in HwStatus :
               SetRequirement(b, m, d, rom)

\* aggregation is per bank: a behaviour follows the links of one bank
InitAgg ==
    /\ currState = InitCurrState
    /\ \E v \in {{}, RegBits(PMU_GLOBAL_RAM_RET_CNTRL)} : regs = InitRegs(v)
    /\ reqs = [b \in Banks |-> NoLinks]
    /\ required = [b \in Banks |-> NoReq]
    /\ \E b \in Banks : active = {b}
    /\ call = NoCall

SpecAgg == InitAgg /\ [][NextAgg]_vars

(***************************************************************************)
(* Vocabulary of the properties.                                           *)
(***************************************************************************)
\* the direct edges of the transition table
Edges == {<<pmSramTransitions[i].fromState, pmSramTransitions[i].toState>> :
              i \in 1 .. Len(pmSramTransitions)}

\* positions of the log at which op was performed
At(tr, op) == {i \in 1 .. Len(tr) : tr[i].op = op}
PowerCalls(tr) == At(tr, "PwrUp") \cup At(tr, "PwrDn")

\* positions of the read-modify-writes of bank b's retention control
RetWrites(tr, b) ==
    {i \in At(tr, "RMW") : tr[i].addr = retCtrlAddr(b) /\ tr[i].mask = retCtrlMask(b)}
\* positions of any write to bank b's retention control register
RetRegWrites(tr, b) == {i \in At(tr, "RMW") : tr[i].addr = retCtrlAddr(b)}

StateTables == {pmSramStates, pmTcmStates}
StrictSubset(x, y) == x \subseteq y /\ x # y

(***************************************************************************)
(* C1: a request for a pair (currState, nextState) that is not a direct    *)
(* edge of pmSramTransitions fails with XST_NO_FEATURE and leaves          *)
(* currState unchanged (OFF -> RET and RET -> OFF included).               *)
(***************************************************************************)
C1_NoEdgeFails ==
    (call.issued /\ <<call.prevState, call.nextState>> \notin Edges)
        => /\ call.status = XST_NO_FEATURE
           /\ currState[call.slave] = call.prevState

(***************************************************************************)
(* C2: PwrUp and PwrDn are invoked only when (currState, nextState) is an  *)
(* edge of the transition table.                                           *)
(***************************************************************************)
C2_PowerOnlyOnEdges ==
    (call.issued /\ PowerCalls(call.trace) # {})
        => <<call.prevState, call.nextState>> \in Edges

(***************************************************************************)
(* C3: when the power action invoked by a request returns a status other   *)
(* than success, the handler returns that status and currState keeps its   *)
(* value; currState changes only in a call that returns XST_SUCCESS.       *)
(***************************************************************************)
C3_FailureKeepsState ==
    call.issued =>
        /\ (PowerCalls(call.trace) # {} /\ call.rom # XST_SUCCESS)
              => /\ call.status = call.rom
                 /\ currState[call.slave] = call.prevState
        /\ currState[call.slave] # call.prevState => call.status = XST_SUCCESS

C3_Witness ==
    /\ call.issued
    /\ call.prevState = PM_SRAM_STATE_RET
    /\ call.nextState = PM_SRAM_STATE_ON
    /\ At(call.trace, "PwrUp") # {}
    /\ call.rom = XST_FAILURE
    /\ call.status = XST_FAILURE
    /\ currState[call.slave] = PM_SRAM_STATE_RET

(***************************************************************************)
(* C4: after a request that returns success currState is the requested     *)
(* nextState, and in both capability tables the new state's capabilities   *)
(* are a strict superset of the old state's when PwrUp was invoked and a   *)
(* strict subset when PwrDn was invoked.                                   *)
(***************************************************************************)
C4_SuccessCommits ==
    (call.issued /\ call.status = XST_SUCCESS) =>
        /\ currState[call.slave] = call.nextState
        /\ At(call.trace, "PwrUp") # {} =>
              \A t \in StateTables : StrictSubset(t[call.prevState], t[call.nextState])
        /\ At(call.trace, "PwrDn") # {} =>
              \A t \in StateTables : StrictSubset(t[call.nextState], t[call.prevState])

C4_Witness ==
    /\ call.issued
    /\ call.status = XST_SUCCESS
    /\ call.slave \in TcmBanks
    /\ call.prevState = PM_SRAM_STATE_RET
    /\ call.nextState = PM_SRAM_STATE_ON
    /\ At(call.trace, "PwrUp") # {}
    /\ currState[call.slave] = PM_SRAM_STATE_ON

(***************************************************************************)
(* C5 as stated: a request for the state the bank is already in reports    *)
(* success, invokes neither PwrUp nor PwrDn nor the retention-control      *)
(* write, and leaves currState as it is.                                   *)
(***************************************************************************)
C5_SameStateSucceeds ==
    (call.issued /\ call.prevState \in ValidStates /\ call.nextState = call.prevState)
        => /\ call.status = XST_SUCCESS
           /\ PowerCalls(call.trace) = {}
           /\ RetRegWrites(call.trace, call.slave) = {}
           /\ currState[call.slave] = call.prevState

(***************************************************************************)
(* C5 amended: a request for the state the bank is already in fails with   *)
(* XST_NO_FEATURE, invokes neither PwrUp nor PwrDn nor the                 *)
(* retention-control write, and leaves currState as it is.                 *)
(***************************************************************************)
C5_SameStateNoFeature ==
    (call.issued /\ call.prevState \in ValidStates /\ call.nextState = call.prevState)
        => /\ call.status = XST_NO_FEATURE
           /\ PowerCalls(call.trace) = {}
           /\ RetRegWrites(call.trace, call.slave) = {}
           /\ currState[call.slave] = call.prevState

C5_Witness ==
    /\ call.issued
    /\ call.prevState = PM_SRAM_STATE_RET
    /\ call.nextState = PM_SRAM_STATE_RET
    /\ call.status = XST_NO_FEATURE
    /\ call.trace = <<>>
    /\ currState[call.slave] = PM_SRAM_STATE_RET

(***************************************************************************)
(* C6: a request that invokes PwrDn performs the retention-control         *)
(* read-modify-write on (retCtrlAddr, retCtrlMask) exactly once and before *)
(* the PwrDn call; a request that invokes PwrUp writes the retention       *)
(* control not at all.                                                     *)
(***************************************************************************)
C6_RetentionBeforePwrDn ==
    call.issued =>
        /\ At(call.trace, "PwrDn") # {} =>
              /\ Cardinality(RetWrites(call.trace, call.slave)) = 1
              /\ Cardinality(RetRegWrites(call.trace, call.slave)) = 1
              /\ \A i \in RetWrites(call.trace, call.slave) :
                    \A j \in At(call.trace, "PwrDn") : i < j
        /\ At(call.trace, "PwrUp") # {} =>
              RetRegWrites(call.trace, call.slave) = {}

C6_Witness ==
    /\ call.issued
    /\ call.slave = "L2"
    /\ call.prevState = PM_SRAM_STATE_ON
    /\ call.nextState = PM_SRAM_STATE_OFF
    /\ RetWrites(call.trace, "L2") = {1}
    /\ At(call.trace, "PwrDn") = {2}

(***************************************************************************)
(* C7: a call that returns success has invoked exactly one power action,   *)
(* once; a call that returns XST_NO_FEATURE or XST_PM_INTERNAL has invoked *)
(* none.                                                                   *)
(***************************************************************************)
C7_OnePowerAction ==
    call.issued =>
        /\ call.status = XST_SUCCESS => Cardinality(PowerCalls(call.trace)) = 1
        /\ call.status \in {XST_NO_FEATURE, XST_PM_INTERNAL} =>
              PowerCalls(call.trace) = {}

C7_Witness ==
    /\ call.issued
    /\ call.status = XST_SUCCESS
    /\ call.prevState = PM_SRAM_STATE_OFF
    /\ Cardinality(PowerCalls(call.trace)) = 1
    /\ At(call.trace, "PwrUp") = {1}

(***************************************************************************)
(* Vocabulary of the aggregation properties.                               *)
(***************************************************************************)
\* the masters that hold a requirement record for bank b
LinkMasters(b) == {m \in Masters : b \in MasterSlaves(m)}
\* the states demanded by the active links among links
ActiveDemands(b, links) == {links[m].state : m \in {k \in LinkMasters(b) : links[k].active}}
\* the maximum under OFF < RET < ON
MaxState(S) == CHOOSE s \in S : \A t \in S : t <= s
\* the multiset of demands of a shareable bank's two links, as a set of values
LinkValues(links) == {links[m] : m \in Masters}

(***************************************************************************)
(* C8: a shareable bank has the two requirement links APU and RPU0; the    *)
(* required state the aggregator computes is the maximum, under            *)
(* OFF < RET < ON, of the states demanded by its active links; and after   *)
(* the link holding the maximum demand is removed the required state is    *)
(* the highest remaining demand.                                           *)
(***************************************************************************)
C8_RequiredIsMax ==
    \A b \in Banks : IsShareable(b) =>
        /\ LinkMasters(b) = {"APU", "RPU0"}
        /\ ActiveDemands(b, reqs[b]) # {} =>
              /\ required[b].active
              /\ required[b].state = MaxState(ActiveDemands(b, reqs[b]))
        /\ \A m \in LinkMasters(b) :
              ( /\ call.slave = b
                /\ call.before[m].active
                /\ call.before[m].state = MaxState(ActiveDemands(b, call.before))
                /\ reqs[b] = [call.before EXCEPT ![m] = NoReq]
                /\ ActiveDemands(b, reqs[b]) # {} )
              => required[b] = Req(MaxState(ActiveDemands(b, reqs[b])))

C8_Witness ==
    /\ call.slave = "TCM0A"
    /\ call.before = [m \in Masters |->
                         IF m = "RPU0" THEN Req(PM_SRAM_STATE_ON) ELSE Req(PM_SRAM_STATE_RET)]
    /\ reqs["TCM0A"] = [call.before EXCEPT !["RPU0"] = NoReq]
    /\ required["TCM0A"] = Req(PM_SRAM_STATE_RET)

(***************************************************************************)
(* C9: with a shareable bank in ON and its two masters demanding RET and   *)
(* ON no transition is issued and no hardware is touched; when the master  *)
(* demanding ON drops its demand exactly one transition ON -> RET is       *)
(* issued: it sets the bank's retention-control mask bits, then calls      *)
(* PwrDn, and commits currState = RET when PwrDn succeeds.                 *)
(***************************************************************************)
C9_Scenario ==
    \A b \in Banks : (IsShareable(b) /\ call.slave = b /\ call.prevState = PM_SRAM_STATE_ON) =>
        /\ LinkValues(reqs[b]) = {Req(PM_SRAM_STATE_RET), Req(PM_SRAM_STATE_ON)}
              => /\ ~call.issued
                 /\ call.trace = <<>>
                 /\ currState[b] = PM_SRAM_STATE_ON
        /\ ( /\ LinkValues(call.before) = {Req(PM_SRAM_STATE_RET), Req(PM_SRAM_STATE_ON)}
             /\ LinkValues(reqs[b]) = {Req(PM_SRAM_STATE_RET), NoReq} )
              => /\ call.issued
                 /\ call.nextState = PM_SRAM_STATE_RET
                 /\ Len(call.trace) = 2
                 /\ call.trace[1] = Event("RMW", "XPfw_RMW32", retCtrlAddr(b),
                                          retCtrlMask(b), retCtrlMask(b))
                 /\ call.trace[2].op = "PwrDn"
                 /\ retCtrlMask(b) \subseteq regs[retCtrlAddr(b)]
                 /\ call.status = call.rom
                 /\ call.rom = XST_SUCCESS => currState[b] = PM_SRAM_STATE_RET
                 /\ call.rom # XST_SUCCESS => currState[b] = PM_SRAM_STATE_ON

C9_Witness ==
    /\ call.issued
    /\ call.slave = "OCM0"
    /\ call.prevState = PM_SRAM_STATE_ON
    /\ call.before = [m \in Masters |->
                         IF m = "RPU0" THEN Req(PM_SRAM_STATE_ON) ELSE Req(PM_SRAM_STATE_RET)]
    /\ reqs["OCM0"] = [call.before EXCEPT !["RPU0"] = NoReq]
    /\ call.nextState = PM_SRAM_STATE_RET
    /\ call.status = XST_SUCCESS
    /\ "OCM0" \in regs[PMU_GLOBAL_RAM_RET_CNTRL]
    /\ currState["OCM0"] = PM_SRAM_STATE_RET

(***************************************************************************)
(* C10: while a bank's currState is outside {OFF, RET, ON}, every request  *)
(* on it fails with XST_PM_INTERNAL, invokes no power action and no        *)
(* retention-control write and leaves currState unchanged, so the bank     *)
(* stays in the unknown state and no later request on it succeeds.         *)
(***************************************************************************)
UnknownStateFails ==
    (call.issued /\ call.prevState \notin ValidStates)
        => /\ call.status = XST_PM_INTERNAL
           /\ call.trace = <<>>
           /\ currState[call.slave] = call.prevState

UnknownStateStays ==
    \A b \in Banks : currState[b] \notin ValidStates =>
        /\ currState'[b] = currState[b]
        /\ (call'.issued /\ call'.slave = b) =>
              /\ call'.status = XST_PM_INTERNAL
              /\ regs' = regs

C10_UnknownStateHalts == [](UnknownStateFails) /\ [][UnknownStateStays]_vars

C10_Witness ==
    /\ call.issued
    /\ call.prevState \notin ValidStates
    /\ call.nextState = PM_SRAM_STATE_ON
    /\ call.status = XST_PM_INTERNAL
    /\ currState[call.slave] = call.prevState

(***************************************************************************)
(* C11: in both capability tables the capability sets do not decrease      *)
(* along OFF, RET, ON, and the two end states of every edge of the         *)
(* transition table have comparable capability sets.                       *)
(***************************************************************************)
Comparable(x, y) == x \subseteq y \/ y \subseteq x

\* (the last conjunct: so the capabilities of the state a bank is in always
\* lie between those of OFF and those of ON)
C11_CapsMonotone ==
    /\ \A t \in StateTables \cup {slvFsm(b).states : b \in Banks} :
          /\ t[PM_SRAM_STATE_OFF] \subseteq t[PM_SRAM_STATE_RET]
          /\ t[PM_SRAM_STATE_RET] \subseteq t[PM_SRAM_STATE_ON]
          /\ \A b \in Banks : \A i \in 1 .. slvFsm(b).transCnt :
                Comparable(t[slvFsm(b).trans[i].fromState], t[slvFsm(b).trans[i].toState])
    /\ \A b \in Banks :
          /\ slvFsm(b).states[PM_SRAM_STATE_OFF] \subseteq slvFsm(b).states[currState[b]]
          /\ slvFsm(b).states[currState[b]] \subseteq slvFsm(b).states[PM_SRAM_STATE_ON]

C11_Witness ==
    /\ call.issued
    /\ call.slave \in TcmBanks
    /\ call.status = XST_SUCCESS
    /\ <<call.prevState, call.nextState>> \in Edges
    /\ currState[call.slave] = PM_SRAM_STATE_RET
    /\ StrictSubset(slvFsm(call.slave).states[PM_SRAM_STATE_RET],
                    slvFsm(call.slave).states[PM_SRAM_STATE_ON])

(***************************************************************************)
(* C12: in the transition table shared by the SRAM and the TCM FSM every   *)
(* state of {OFF, RET, ON} is the toState of some edge and the fromState   *)
(* of some edge, and every edge's fromState and toState are below          *)
(* statesCnt = 3.                                                          *)
(***************************************************************************)
\* (the last conjunct: so the state a bank is in always has an edge out of it
\* and an edge into it)
C12_TableCoversStates ==
    /\ \A fsm \in {slaveSramFsm, slaveTcmFsm} :
          /\ fsm.statesCnt = PM_SRAM_STATE_MAX
          /\ fsm.trans = pmSramTransitions
          /\ \A s \in ValidStates :
                /\ \E i \in 1 .. fsm.transCnt : fsm.trans[i].toState = s
                /\ \E i \in 1 .. fsm.transCnt : fsm.trans[i].fromState = s
          /\ \A i \in 1 .. fsm.transCnt :
                /\ fsm.trans[i].fromState \in 0 .. fsm.statesCnt - 1
                /\ fsm.trans[i].toState \in 0 .. fsm.statesCnt - 1
    /\ \A b \in Banks :
          /\ \E i \in 1 .. slvFsm(b).transCnt : slvFsm(b).trans[i].fromState = currState[b]
          /\ \E i \in 1 .. slvFsm(b).transCnt : slvFsm(b).trans[i].toState = currState[b]

C12_Witness ==
    /\ call.issued
    /\ call.status = XST_SUCCESS
    /\ call.prevState = PM_SRAM_STATE_OFF
    /\ call.nextState = PM_SRAM_STATE_ON
    /\ <<call.prevState, call.nextState>> \in Edges
    /\ currState[call.slave] = PM_SRAM_STATE_ON

(***************************************************************************)
(* C13: at the moment PwrDn is invoked in a downward transition the bits   *)
(* of the bank's retCtrlMask are all set when nextState is RET and all     *)
(* cleared when nextState is OFF, whatever they were before the request.   *)
(***************************************************************************)
\* the registers after the first n accesses of log tr, starting from r
RECURSIVE Replay(_, _, _)
Replay(r, tr, n) ==
    IF n = 0 THEN r
    ELSE LET r1 == Replay(r, tr, n - 1)
             e  == tr[n]
         IN  IF e.op = "RMW" THEN [r1 EXCEPT ![e.addr] = (@ \ e.mask) \cup e.val]
             ELSE r1

RetBitsAtPwrDn ==
    call'.issued =>
        /\ Replay(regs, call'.trace, Len(call'.trace)) = regs'
        /\ \A j \in At(call'.trace, "PwrDn") :
              LET r == Replay(regs, call'.trace, j - 1)[retCtrlAddr(call'.slave)]
                  m == retCtrlMask(call'.slave)
              IN  /\ call'.nextState \in {PM_SRAM_STATE_RET, PM_SRAM_STATE_OFF}
                  /\ call'.nextState = PM_SRAM_STATE_RET => m \subseteq r
                  /\ call'.nextState = PM_SRAM_STATE_OFF => m \cap r = {}

C13_RetBitsAtPwrDn == [][RetBitsAtPwrDn]_vars

\* a power down to OFF of a bank whose retention bit had come out of reset set
C13_Witness ==
    /\ call.issued
    /\ call.prevState = PM_SRAM_STATE_ON
    /\ call.nextState = PM_SRAM_STATE_OFF
    /\ At(call.trace, "PwrDn") = {2}
    /\ active = {call.slave}
    /\ "RSVD" \in regs[PMU_GLOBAL_RAM_RET_CNTRL]
    /\ retCtrlMask(call.slave) \cap regs[retCtrlAddr(call.slave)] = {}

(***************************************************************************)
(* C14: in PmL2PwrDn the L2 reset (APU_L2_RESET of CRF_APB_RST_FPD_APU) is *)
(* asserted before the PMU-ROM handler XpbrPwrDnL2Bank0Handler, which      *)
(* powers down the L2 RAM, is called.                                      *)
(***************************************************************************)
\* positions of the log at which the L2 reset is asserted
L2ResetWrites(tr) ==
    {i \in At(tr, "RMW") :
        /\ tr[i].addr = CRF_APB_RST_FPD_APU
        /\ tr[i].mask = CRF_APB_RST_FPD_APU_APU_L2_RESET_MASK
        /\ tr[i].val = CRF_APB_RST_FPD_APU_APU_L2_RESET_MASK}

C14_L2ResetBeforePowerDown ==
    call.issued =>
        \A j \in At(call.trace, "ROM") :
            \E i \in L2ResetWrites(call.trace) : i < j

(***************************************************************************)
(* C15: for every edge (from, to) of pmSramTransitions and every bank, a   *)
(* request for `to` made in `from` invokes the action of the edge's        *)
(* direction (PwrDn for ON -> RET and ON -> OFF, PwrUp for RET -> ON and   *)
(* OFF -> ON) and returns what that action returns, so success when it     *)
(* succeeds; no edge is answered with XST_NO_FEATURE or XST_PM_INTERNAL.   *)
(***************************************************************************)
C15_EdgesAreServed ==
    (call.issued /\ <<call.prevState, call.nextState>> \in Edges) =>
        /\ call.prevState = PM_SRAM_STATE_ON =>
              /\ Cardinality(At(call.trace, "PwrDn")) = 1
              /\ At(call.trace, "PwrUp") = {}
        /\ call.nextState = PM_SRAM_STATE_ON =>
              /\ Cardinality(At(call.trace, "PwrUp")) = 1
              /\ At(call.trace, "PwrDn") = {}
        /\ call.status = call.rom
        /\ call.rom = XST_SUCCESS => call.status = XST_SUCCESS
        /\ call.status \notin {XST_NO_FEATURE, XST_PM_INTERNAL}

C15_Witness ==
    /\ call.issued
    /\ <<call.prevState, call.nextState>> \in Edges
    /\ call.prevState = PM_SRAM_STATE_OFF
    /\ call.nextState = PM_SRAM_STATE_ON
    /\ At(call.trace, "PwrUp") = {1}
    /\ call.rom = XST_SUCCESS
    /\ call.status = XST_SUCCESS
    /\ call.slave \in OcmBanks

(***************************************************************************)
(* C16: the nine banks (L2, OCM0-3, TCM0A/0B/1A/1B) start in state ON, and *)
(* after any sequence of requests, whatever the requested nextState (values*)
(* outside {OFF, RET, ON} included) and whatever the power actions return, *)
(* every currState is in {OFF, RET, ON}; so no call is made in an unknown  *)
(* state and none returns XST_PM_INTERNAL.                                 *)
(***************************************************************************)
C16_StateStaysValid ==
    /\ Banks = {"L2", "OCM0", "OCM1", "OCM2", "OCM3",
                "TCM0A", "TCM0B", "TCM1A", "TCM1B"}
    /\ ~call.issued => \A b \in Banks : currState[b] = PM_SRAM_STATE_ON
    /\ \A b \in Banks : currState[b] \in ValidStates
    /\ call.issued =>
          /\ call.prevState \in ValidStates
          /\ call.status # XST_PM_INTERNAL

\* a request for a value outside the FSM's states has been answered
C16_Witness ==
    /\ call.issued
    /\ call.nextState \notin ValidStates
    /\ call.prevState = PM_SRAM_STATE_RET
    /\ call.status = XST_NO_FEATURE
    /\ currState[call.slave] = PM_SRAM_STATE_RET

(***************************************************************************)
(* C17: in every reachable state, a bank recorded as RET has its retention *)
(* control bits set and a bank recorded as OFF has them cleared.           *)
(* Violated: in RET a request for OFF (lines 119-123) clears the bits      *)
(* before PwrDn is called, and when PwrDn fails the recorded state stays   *)
(* RET (lines 142-144).                                                    *)
(***************************************************************************)
C17_RetBitsMatchState ==
    \A b \in Banks :
        /\ currState[b] = PM_SRAM_STATE_RET =>
              retCtrlMask(b) \subseteq regs[retCtrlAddr(b)]
        /\ currState[b] = PM_SRAM_STATE_OFF =>
              retCtrlMask(b) \cap regs[retCtrlAddr(b)] = {}

(***************************************************************************)
(* C18: frame.  All banks use the same retention control register and      *)
(* their masks are pairwise disjoint; a request on one bank, whatever its  *)
(* outcome, leaves the currState of every other bank and every bit of the  *)
(* retention control register outside the bank's own mask as they were.    *)
(* (The FSM tables, the capability tables and the other configuration      *)
(* fields are definitions of this module, so no step can change them.)     *)
(***************************************************************************)
MasksDisjoint ==
    /\ \A b \in Banks : retCtrlAddr(b) = PMU_GLOBAL_RAM_RET_CNTRL
    /\ \A b1, b2 \in Banks :
          b1 # b2 => retCtrlMask(b1) \cap retCtrlMask(b2) = {}

OthersUntouched ==
    LET b == call'.slave
    IN  /\ MasksDisjoint
        /\ call'.issued
        /\ \A o \in Banks \ {b} : currState'[o] = currState[o]
        /\ regs'[retCtrlAddr(b)] \ retCtrlMask(b) =
              regs[retCtrlAddr(b)] \ retCtrlMask(b)
        /\ \A o \in Banks \ {b} :
              retCtrlMask(o) \cap regs'[retCtrlAddr(o)] =
                  retCtrlMask(o) \cap regs[retCtrlAddr(o)]

C18_Frame == [][OthersUntouched]_vars

\* a bank has been switched off while a neighbour's retention bit stays set
C18_Witness ==
    /\ call.issued
    /\ call.slave = "OCM0"
    /\ call.prevState = PM_SRAM_STATE_ON
    /\ call.nextState = PM_SRAM_STATE_OFF
    /\ At(call.trace, "RMW") # {}
    /\ "OCM0" \notin regs[PMU_GLOBAL_RAM_RET_CNTRL]
    /\ "OCM1" \in regs[PMU_GLOBAL_RAM_RET_CNTRL]
    /\ currState["OCM1"] = PM_SRAM_STATE_ON

(***************************************************************************)
(* C19: every power-down of L2 calls XpbrPwrDnL2Bank0Handler once, asserts *)
(* the L2 reset whatever the handler returned, and returns the handler's   *)
(* status; so a downward request on L2 whose ROM handler fails leaves L2   *)
(* recorded as ON while the reset is asserted and the retention control    *)
(* bit is already written for the target state.                            *)
(***************************************************************************)
C19_L2PowerDown ==
    (call.issued /\ call.slave = "L2" /\ At(call.trace, "PwrDn") # {}) =>
        /\ Cardinality(At(call.trace, "ROM")) = 1
        /\ call.status = call.rom
        /\ L2ResetWrites(call.trace) # {}
        /\ CRF_APB_RST_FPD_APU_APU_L2_RESET_MASK \subseteq regs[CRF_APB_RST_FPD_APU]
        /\ (call.prevState = PM_SRAM_STATE_ON /\ call.rom # XST_SUCCESS) =>
              /\ currState["L2"] = PM_SRAM_STATE_ON
              /\ call.nextState = PM_SRAM_STATE_RET =>
                    retCtrlMask("L2") \subseteq regs[retCtrlAddr("L2")]
              /\ call.nextState = PM_SRAM_STATE_OFF =>
                    retCtrlMask("L2") \cap regs[retCtrlAddr("L2")] = {}

\* a failed power-down of L2 to OFF, started with the retention bit set
C19_Witness ==
    /\ call.issued
    /\ call.slave = "L2"
    /\ call.prevState = PM_SRAM_STATE_ON
    /\ call.nextState = PM_SRAM_STATE_OFF
    /\ call.rom = XST_FAILURE
    /\ call.status = XST_FAILURE
    /\ At(call.trace, "PwrDn") # {}
    /\ currState["L2"] = PM_SRAM_STATE_ON
    /\ "APU_L2_RESET" \in regs[CRF_APB_RST_FPD_APU]
    /\ "L2" \notin regs[PMU_GLOBAL_RAM_RET_CNTRL]

(***************************************************************************)
(* C20: with requests executed one at a time to completion (one step of    *)
(* the specification is one whole handler call), the currState of a bank   *)
(* is the nextState of the most recent request on it that returned         *)
(* XST_SUCCESS, or ON if none has succeeded.  Stated inductively: every    *)
(* bank starts ON; a request that returns XST_SUCCESS makes its nextState  *)
(* the bank's currState; any other request (no edge, unknown state,        *)
(* hardware failure) leaves every currState as it was.                     *)
(***************************************************************************)
LastSuccessWins ==
    /\ call'.issued
    /\ \A b \in Banks :
          currState'[b] =
              IF call'.slave = b /\ call'.status = XST_SUCCESS
              THEN call'.nextState
              ELSE currState[b]

C20_LastSuccessWins ==
    /\ \A b \in Banks : currState[b] = PM_SRAM_STATE_ON
    /\ [][LastSuccessWins]_vars

\* a request failed in hardware after an earlier one had succeeded
C20_Witness ==
    /\ call.issued
    /\ call.prevState = PM_SRAM_STATE_RET
    /\ call.nextState = PM_SRAM_STATE_ON
    /\ call.rom = XST_FAILURE
    /\ call.status = XST_FAILURE
    /\ currState[call.slave] = PM_SRAM_STATE_RET

====
